---------------------------- MODULE Spec2Model ----------------------------
(***************************************************************************)
(* Fuzzy Personality Classifier (src/main.py): two Mamdani controllers,    *)
(* orientation and stability, over nine slider ratings.                    *)
(*                                                                         *)
(* Numbers are exact rationals held as integers:                           *)
(*   - a slider rating is a tick t in 0..20, the value t/2 (step 0.5);     *)
(*   - a point of an antecedent universe is in tenths (U10, step 0.1);     *)
(*   - a point of a consequent universe is in twelfths (U100, step 0.5 is  *)
(*     6 twelfths), fine enough to hold every point at which a term's      *)
(*     curve meets a firing strength the sliders can produce;              *)
(*   - a membership degree d is the integer d * DegScale.                  *)
(* The fuzzy operations are those of scikit-fuzzy, which main.py calls:    *)
(* trimf, trapmf, Rule (& is min, | is max), ControlSystemSimulation       *)
(* (fuzzify, accumulate by max, clip, aggregate by max, centroid).         *)
(***************************************************************************)
EXTENDS Integers, Sequences, FiniteSets, TLC

\* Degrees are multiples of 1/DegScale: 1/3 and 1/4 steps of the antecedent
\* slopes, 1/100, 1/40 and 1/80 steps of the consequent slopes.
DegScale == 12 * 200

Min2(a, b) == IF a <= b THEN a ELSE b
Max2(a, b) == IF a >= b THEN a ELSE b

----------------------------------------------------------------------------
(* 1. Universes *)

\* U10 = np.arange(0, 10.1, 0.1), in tenths.
U10 == 0 .. 100

\* One unit of a consequent universe is 1/OutUnit; U100 has step 0.5.
OutUnit == 3 * 4
OutStep == OutUnit \div 2

\* U100 = np.arange(0, 100.5, 0.5), in twelfths.
U100 == { OutStep * i : i \in 0 .. 200 }

----------------------------------------------------------------------------
(* Membership functions *)

\* fuzz.trimf(x, [a, b, c]): 0 outside (a, c), linear a..b and b..c, 1 at b.
trimf(x, abc) ==
    LET a == abc[1]
        b == abc[2]
        c == abc[3]
    IN  IF x = b THEN DegScale
        ELSE IF a # b /\ a < x /\ x < b THEN ((x - a) * DegScale) \div (b - a)
        ELSE IF b # c /\ b < x /\ x < c THEN ((c - x) * DegScale) \div (c - b)
        ELSE 0

\* fuzz.trapmf(x, [a, b, c, d]): 1 on [b, c], trimf shoulders on either side.
trapmf(x, abcd) ==
    LET a == abcd[1]
        b == abcd[2]
        c == abcd[3]
        d == abcd[4]
    IN  IF x < a \/ x > d THEN 0
        ELSE IF x >= c THEN trimf(x, <<c, c, d>>)
        ELSE IF x <= b THEN trimf(x, <<a, b, b>>)
        ELSE DegScale

\* A membership function is its control points: three for trimf, four for trapmf.
mf(x, shape) == IF Len(shape) = 4 THEN trapmf(x, shape) ELSE trimf(x, shape)

----------------------------------------------------------------------------
(* 2. Inputs (Antecedents), 3. Outputs (Consequents) and their terms *)

Antecedents ==
    {"social", "talk", "confidence", "energy", "alone", "initiate", "group",
     "public_speak", "express"}

\* The variables the loop at line 41 gives low / med / high.
LowMedHighVars ==
    {"social", "talk", "confidence", "energy", "initiate", "group",
     "public_speak", "alone"}

\* A faulty variant: the shoulder of 'low' ends at 6 instead of 5.
add_low_med_high_LowEndsAtSix ==
    [low |-> <<0, 0, 30, 60>>, med |-> <<40, 55, 70>>, high |-> <<60, 80, 100, 100>>]

\* add_low_med_high(var); control points in tenths.
add_low_med_high ==
    [low |-> <<0, 0, 30, 50>>, med |-> <<40, 55, 70>>, high |-> <<60, 80, 100, 100>>]

\* express['reserved' / 'balanced' / 'expressive'].
express_terms ==
    [reserved |-> <<0, 0, 30, 50>>, balanced |-> <<40, 55, 70>>,
     expressive |-> <<60, 80, 100, 100>>]

\* The term registry of an antecedent: term name -> control points.
\* A variable no statement gives terms has the empty registry.
AntecedentTerms(var) ==
    IF var \in LowMedHighVars THEN add_low_med_high
    ELSE IF var = "express" THEN express_terms
    ELSE << >>

\* A faulty variant: 'extrovert' given the control points of 'ambivert'.
orientation_terms_ExtrovertAsAmbivert ==
    [introvert |-> <<0, 0, 50 * OutUnit>>,
     ambivert  |-> <<30 * OutUnit, 50 * OutUnit, 70 * OutUnit>>,
     extrovert |-> <<30 * OutUnit, 50 * OutUnit, 70 * OutUnit>>]

\* orientation['introvert' / 'ambivert' / 'extrovert'], in twelfths.
orientation_terms ==
    [introvert |-> <<0, 0, 50 * OutUnit>>,
     ambivert  |-> <<30 * OutUnit, 50 * OutUnit, 70 * OutUnit>>,
     extrovert |-> <<60 * OutUnit, 100 * OutUnit, 100 * OutUnit>>]

\* stability['low' / 'balanced' / 'high'], in twelfths.
stability_terms ==
    [low      |-> <<0, 0, 50 * OutUnit>>,
     balanced |-> <<30 * OutUnit, 50 * OutUnit, 70 * OutUnit>>,
     high     |-> <<60 * OutUnit, 100 * OutUnit, 100 * OutUnit>>]

----------------------------------------------------------------------------
(* 4. Rules *)

\* var['term'], and the & and | of two rule expressions.
T(var, term) == [op |-> "term", var |-> var, term |-> term]
And(l, r) == [op |-> "and", l |-> l, r |-> r]
Or(l, r) == [op |-> "or", l |-> l, r |-> r]
\* ctrl.Rule(antecedent, consequent term)
Rule(antecedent, term) == [antecedent |-> antecedent, consequent |-> term]

orientation_rules == <<
    Rule(And(And(T("social", "high"), T("talk", "high")), T("confidence", "high")), "extrovert"),
    Rule(And(T("initiate", "high"), Or(T("talk", "med"), T("confidence", "high"))), "extrovert"),
    Rule(And(T("group", "high"), T("public_speak", "high")), "extrovert"),
    Rule(And(T("energy", "high"), T("express", "expressive")), "extrovert"),
    Rule(And(T("alone", "low"), Or(T("social", "high"), T("initiate", "high"))), "extrovert"),
    Rule(And(And(T("social", "low"), T("talk", "low")), T("alone", "high")), "introvert"),
    Rule(And(T("group", "low"), T("public_speak", "low")), "introvert"),
    Rule(And(T("energy", "low"), T("express", "reserved")), "introvert"),
    Rule(And(T("initiate", "low"), T("confidence", "low")), "introvert"),
    Rule(And(T("alone", "high"), Or(T("social", "low"), T("talk", "low"))), "introvert"),
    Rule(And(T("social", "med"), T("talk", "med")), "ambivert"),
    Rule(And(T("confidence", "med"), T("alone", "med")), "ambivert"),
    Rule(And(T("group", "med"), T("public_speak", "med")), "ambivert"),
    Rule(And(T("energy", "med"), T("express", "balanced")), "ambivert"),
    Rule(And(T("social", "high"), T("alone", "med")), "ambivert"),
    Rule(And(And(T("talk", "high"), T("express", "reserved")), T("confidence", "med")), "ambivert"),
    Rule(And(T("initiate", "med"), Or(T("group", "med"), T("public_speak", "med"))), "ambivert"),
    Rule(And(And(T("confidence", "high"), T("public_speak", "low")), T("alone", "med")), "ambivert")
>>

stability_rules == <<
    Rule(And(T("confidence", "low"), T("express", "expressive")), "low"),
    Rule(And(T("energy", "high"), T("alone", "high")), "low"),
    Rule(And(T("confidence", "low"), T("energy", "low")), "low"),
    Rule(And(T("group", "low"), T("public_speak", "low")), "low"),
    Rule(And(T("confidence", "med"), T("express", "balanced")), "balanced"),
    Rule(And(T("energy", "med"), T("alone", "med")), "balanced"),
    Rule(And(T("social", "med"), T("talk", "med")), "balanced"),
    Rule(And(T("group", "med"), T("public_speak", "med")), "balanced"),
    Rule(And(T("confidence", "high"), T("express", "balanced")), "high"),
    Rule(And(T("energy", "med"), T("confidence", "high")), "high"),
    Rule(And(T("group", "high"), T("public_speak", "high")), "high"),
    Rule(And(T("alone", "low"), T("confidence", "high")), "high"),
    Rule(And(T("social", "high"), T("express", "balanced")), "high")
>>

\* The (variable, term) leaves of a rule expression.
RECURSIVE Leaves(_)
Leaves(e) ==
    IF e.op = "term" THEN {<<e.var, e.term>>}
    ELSE Leaves(e.l) \cup Leaves(e.r)

\* Every (variable, term) pair the rules of a rule base refer to.
RuleLeaves(rules) == UNION { Leaves(rules[i].antecedent) : i \in DOMAIN rules }

\* ControlSystem(rules).antecedents: the variables its rules refer to.
RuleAntecedents(rules) == { l[1] : l \in RuleLeaves(rules) }

\* orientation_system = ctrl.ControlSystem(orientation_rules)
orientation_system ==
    [rules |-> orientation_rules, antecedents |-> RuleAntecedents(orientation_rules),
     consequent |-> "orientation", terms |-> orientation_terms]

\* stability_system = ctrl.ControlSystem(stability_rules)
stability_system ==
    [rules |-> stability_rules, antecedents |-> RuleAntecedents(stability_rules),
     consequent |-> "stability", terms |-> stability_terms]

----------------------------------------------------------------------------
(* 5. Control systems: what ControlSystemSimulation.compute() does *)

\* Fuzzification: the degree of each bound input (in tenths) in every term
\* of its variable. A slider value is a point of U10, where interpolating
\* the sampled curve gives the curve's own value.
fuzz(input) ==
    [var \in DOMAIN input |->
        [term \in DOMAIN AntecedentTerms(var) |->
            mf(input[var], AntecedentTerms(var)[term])]]

\* The truth value of a rule expression under the fuzzified inputs:
\* a leaf is the degree of the input in the term, & is min, | is max.
RECURSIVE Eval(_, _)
Eval(e, membership) ==
    IF e.op = "term" THEN membership[e.var][e.term]
    ELSE IF e.op = "and" THEN Min2(Eval(e.l, membership), Eval(e.r, membership))
    ELSE Max2(Eval(e.l, membership), Eval(e.r, membership))

\* A faulty variant: a later firing replaces the cut instead of being
\* combined with it.
Accumulate_LastFiringWins(cuts, term, value) ==
    IF term \in DOMAIN cuts THEN [cuts EXCEPT ![term] = value]
    ELSE cuts @@ (term :> value)

\* One rule's firing accumulated into its consequent term's cut: the first
\* firing of a term sets it, a later one is combined by max. `cuts` maps the
\* terms reached so far to their cuts.
Accumulate(cuts, term, value) ==
    IF term \in DOMAIN cuts THEN [cuts EXCEPT ![term] = Max2(value, @)]
    ELSE cuts @@ (term :> value)

\* The rules evaluated in the order `order` (a sequence of rule indices),
\* from position k on.
RECURSIVE ComputeRules(_, _, _, _, _)
ComputeRules(rules, order, k, membership, cuts) ==
    IF k > Len(order) THEN cuts
    ELSE LET rule == rules[order[k]]
             fired == Eval(rule.antecedent, membership)
         IN  ComputeRules(rules, order, k + 1, membership,
                 Accumulate(cuts, rule.consequent, fired))

\* The points at which a term's curve meets its cut, added to the universe
\* before defuzzification.
Crossings(shape, cut) ==
    LET n == Len(shape)
        a == shape[1]
        b == shape[2]
        c == shape[n - 1]
        d == shape[n]
    IN  (IF a < b THEN {a + (cut * (b - a)) \div DegScale} ELSE {})
        \cup (IF c < d THEN {d - (cut * (d - c)) \div DegScale} ELSE {})

\* The universe with every term's crossing points added.
NewPoints(terms, cuts) ==
    UNION { Crossings(terms[t], cuts[t]) : t \in DOMAIN terms \cap DOMAIN cuts }

\* A finite set of integers as an increasing sequence.
RECURSIVE Sorted(_)
Sorted(S) ==
    IF S = {} THEN << >>
    ELSE LET m == CHOOSE x \in S : \A y \in S : x <= y
         IN  <<m>> \o Sorted(S \ {m})

\* The upsampled universe between grid points lo and hi (indices into
\* U100), increasing; the grid point of index 200 ends it.
RECURSIVE Upsampled(_, _, _)
Upsampled(lo, hi, extra) ==
    IF lo = hi
    THEN <<OutStep * lo>>
         \o Sorted({x \in extra : OutStep * lo < x /\ x < OutStep * (lo + 1)})
    ELSE LET mid == (lo + hi) \div 2
         IN  Upsampled(lo, mid, extra) \o Upsampled(mid + 1, hi, extra)

\* The aggregated curve at a point: the max over the terms of the term's
\* curve clipped at its cut.
AggregatedAt(x, terms, cuts) ==
    LET clipped == { Min2(cuts[t], mf(x, terms[t])) : t \in DOMAIN terms \cap DOMAIN cuts }
    IN  CHOOSE m \in clipped \cup {0} : \A v \in clipped : m >= v

\* The aggregated curve sampled on the points lo..hi of a sequence.
RECURSIVE Sample(_, _, _, _, _)
Sample(pts, lo, hi, terms, cuts) ==
    IF lo = hi THEN <<AggregatedAt(pts[lo], terms, cuts)>>
    ELSE LET mid == (lo + hi) \div 2
         IN  Sample(pts, lo, mid, terms, cuts) \o Sample(pts, mid + 1, hi, terms, cuts)

\* Twice the area of segment k: a trapezoid between points k and k + 1.
SegArea2(pts, mu, k) == (pts[k + 1] - pts[k]) * (mu[k] + mu[k + 1])

\* Six times (moment * area) of segment k.
SegMoment6(pts, mu, k) ==
    LET dx == pts[k + 1] - pts[k]
    IN  dx * (dx * (2 * mu[k + 1] + mu[k]) + 3 * pts[k] * (mu[k] + mu[k + 1]))

\* Twice the area under the curve over segments lo..hi.
RECURSIVE Area2(_, _, _, _)
Area2(pts, mu, lo, hi) ==
    IF lo = hi THEN SegArea2(pts, mu, lo)
    ELSE LET mid == (lo + hi) \div 2
         IN  Area2(pts, mu, lo, mid) + Area2(pts, mu, mid + 1, hi)

\* The sum of SegMoment6 over segments lo..hi divided by den, as a whole part
\* and a remainder: the sums are divided as they are added, so that no
\* intermediate value leaves the integers the checker computes with.
RECURSIVE Moment6Over(_, _, _, _, _)
Moment6Over(pts, mu, lo, hi, den) ==
    IF lo = hi
    THEN LET m == SegMoment6(pts, mu, lo)
         IN  [whole |-> m \div den, rem |-> m % den]
    ELSE LET mid == (lo + hi) \div 2
             l == Moment6Over(pts, mu, lo, mid, den)
             r == Moment6Over(pts, mu, mid + 1, hi, den)
         IN  [whole |-> l.whole + r.whole + (l.rem + r.rem) \div den,
              rem |-> (l.rem + r.rem) % den]

\* A faulty variant: the moments are divided by the sum of 2 * area, not by
\* that of 6 * area.
centroid_WrongAreaFactor(pts, mu) ==
    LET n == Len(pts) - 1
        den == Area2(pts, mu, 1, n)
        q == Moment6Over(pts, mu, 1, n, den)
    IN  [whole |-> q.whole, rem |-> q.rem, den |-> den]

\* centroid(x, mfx): sum of moment * area over sum of area, in twelfths, as
\* whole + rem / den.
centroid(pts, mu) ==
    LET n == Len(pts) - 1
        den == 3 * Area2(pts, mu, 1, n)
        q == Moment6Over(pts, mu, 1, n, den)
    IN  [whole |-> q.whole, rem |-> q.rem, den |-> den]

\* mfx.sum() over points lo..hi.
RECURSIVE SumSeq(_, _, _)
SumSeq(s, lo, hi) ==
    IF lo = hi THEN s[lo]
    ELSE LET mid == (lo + hi) \div 2
         IN  SumSeq(s, lo, mid) + SumSeq(s, mid + 1, hi)

\* The total membership of the aggregated curve is zero: no centroid.
EmptyMembership == [whole |-> 0, rem |-> 0, den |-> 0]

\* defuzz(universe, mf, 'centroid'): the centroid of the aggregated curve, or
\* EmptyMembership (the library raises) when its total membership is zero.
defuzz(terms, cuts) ==
    LET pts == Upsampled(0, Cardinality(U100) - 1, NewPoints(terms, cuts))
        mu == Sample(pts, 1, Len(pts), terms, cuts)
    IN  IF SumSeq(mu, 1, Len(mu)) = 0 THEN EmptyMembership ELSE centroid(pts, mu)


\* A ControlSystemSimulation: the inputs bound so far, the fuzzified inputs
\* and the term cuts of the last compute(), the crisp outputs, and what the
\* last compute() raised.
NewSimulation ==
    [input |-> << >>, membership |-> << >>, cuts |-> << >>, output |-> << >>,
     raised |-> "none"]

\* sim.input[key] = value; a key that is no antecedent of the rule base is
\* refused with ValueError.
SetInput(sim, system, key, value) ==
    IF key \notin system.antecedents
    THEN [sim EXCEPT !.raised = "unexpected_input"]
    ELSE [sim EXCEPT !.input = (key :> value) @@ @]

\* Every antecedent of the rule base has an input: the session is Ready.
Ready(sim, system) == system.antecedents \subseteq DOMAIN sim.input

\* The first half of compute(): the inputs fuzzified and the rules evaluated
\* in `order`, each accumulated into its consequent term's cut.
infer(sim, system, order) ==
    LET membership == fuzz(sim.input)
    IN  [sim EXCEPT !.membership = membership,
                    !.cuts = ComputeRules(system.rules, order, 1, membership, << >>)]

\* A faulty variant: an antecedent without an input is taken to be 0.
compute_MissingInputAsZero(sim, system, order) ==
    LET filled == [k \in system.antecedents |->
                      IF k \in DOMAIN sim.input THEN sim.input[k] ELSE 0]
        s == infer([sim EXCEPT !.input = filled], system, order)
        crisp == defuzz(system.terms, s.cuts)
    IN  IF crisp = EmptyMembership
        THEN [s EXCEPT !.input = sim.input, !.raised = "zero_area"]
        ELSE [s EXCEPT !.input = sim.input,
                       !.output = (system.consequent :> crisp) @@ @,
                       !.raised = "none"]

\* sim.compute() on a control system whose rules are evaluated in `order`:
\*  - an antecedent of the rule base without an input: ValueError, nothing
\*    computed;
\*  - otherwise fuzzify, evaluate the rules, defuzzify; an aggregated curve
\*    of zero total membership: ValueError, no output.
compute(sim, system, order) ==
    IF ~Ready(sim, system) THEN [sim EXCEPT !.raised = "missing_input"]
    ELSE LET s == infer(sim, system, order)
             crisp == defuzz(system.terms, s.cuts)
         IN  IF crisp = EmptyMembership
             THEN [s EXCEPT !.raised = "zero_area"]
             ELSE [s EXCEPT !.output = (system.consequent :> crisp) @@ @,
                            !.raised = "none"]

----------------------------------------------------------------------------
(* 6. UI inputs *)

\* st.sidebar.slider(label, 0.0, 10.0, 4.5, 0.5), in tenths.
SliderMin == 0
SliderMax == 100
SliderDefault == 45
SliderStep == 5

SliderValues == { v \in SliderMin .. SliderMax : (v - SliderMin) % SliderStep = 0 }

\* The keys of the inputs dict, in the order the dict gives them.
InputKeys ==
    <<"social", "talk", "confidence", "energy", "alone", "initiate", "group",
      "public_speak", "express">>

\* A faulty variant: 'express' left out of the list.
StabKeys_WithoutExpress ==
    <<"social", "talk", "confidence", "energy", "alone", "group", "public_speak">>

\* The keys fed to the stability simulation.
StabKeys ==
    <<"social", "talk", "confidence", "energy", "alone", "group", "public_speak",
      "express">>

\* Slider settings the model starts from: every slider at its default; at
\* its minimum; at its maximum; two settings with low, middle and high
\* ratings mixed; every slider at 5.5; every slider at 6.5.
Profiles == <<
    [k \in Antecedents |-> SliderDefault],
    [k \in Antecedents |-> SliderMin],
    [k \in Antecedents |-> SliderMax],
    [social |-> 0, talk |-> 100, confidence |-> 50, energy |-> 0, alone |-> 0,
     initiate |-> 0, group |-> 0, public_speak |-> 100, express |-> 100],
    [social |-> 70, talk |-> 65, confidence |-> 80, energy |-> 45, alone |-> 35,
     initiate |-> 90, group |-> 50, public_speak |-> 20, express |-> 60],
    [k \in Antecedents |-> 55],
    [k \in Antecedents |-> 65]
>>

\* How many of the profiles a check starts from.
NumProfiles == 5

ProfileVectors == { Profiles[n] : n \in 1 .. NumProfiles }

\* A profile, or a profile with one slider moved to any of its positions.
InputVectors ==
    { [p EXCEPT ![k] = v] : p \in ProfileVectors, k \in Antecedents, v \in SliderValues }

\* The rules in the order the source lists them.
SourceOrder(rules) == [k \in 1 .. Len(rules) |-> k]

\* Orders in which a rule base of n rules may be evaluated: the source
\* order rotated by r places, as it is or reversed.
Shuffle(n, r, reversed) ==
    [k \in 1 .. n |->
        LET j == IF reversed THEN n + 1 - k ELSE k
        IN  ((j - 1 + r) % n) + 1]

\* How far the rule orders of a check are rotated.
MaxRotation == 4

----------------------------------------------------------------------------
(* The script, top to bottom *)

VARIABLES
    inputs,       \* the inputs dict: antecedent name -> slider value (tenths)
    order,        \* the order in which each control system evaluates its rules
    sim_orient,   \* ControlSystemSimulation(orientation_system)
    sim_stab,     \* ControlSystemSimulation(stability_system)
    pc,           \* the statement the script is at
    i,            \* the position of a feeding loop in its key list
    results,      \* score_orient, score_stab, label_orient, label_stab
    page          \* what the page shows

vars == <<inputs, order, sim_orient, sim_stab, pc, i, results, page>>

\* A crisp value c (whole + rem / den twelfths) against a number of units.
Below(c, n) == c.whole < n * OutUnit
Above(c, n) == c.whole > n * OutUnit \/ (c.whole = n * OutUnit /\ c.rem > 0)

interpret_orientation(score) ==
    IF Below(score, 40) THEN "Introvert"
    ELSE IF Above(score, 60) THEN "Extrovert"
    ELSE "Ambivert"

interpret_stability(score) ==
    IF Below(score, 40) THEN "Low"
    ELSE IF Above(score, 60) THEN "High"
    ELSE "Balanced"

\* 11. Summary: the message under the two columns.
Summary(label_orient, label_stab) ==
    IF label_orient = "Extrovert" /\ label_stab = "High" THEN "info: natural leader"
    ELSE IF label_orient = "Introvert" /\ label_stab = "High" THEN "info: introspective yet resilient"
    ELSE IF label_stab = "Low" THEN "warning: emotional reactivity"
    ELSE "success: moderately balanced"

EmptyPage == [error |-> FALSE, orientation |-> << >>, stability |-> << >>, summary |-> ""]

InitWith(vectors, orders, start) ==
    /\ inputs \in vectors
    /\ order \in orders
    /\ sim_orient = NewSimulation
    /\ sim_stab = NewSimulation
    /\ pc = start
    /\ i = 1
    /\ results = << >>
    /\ page = EmptyPage

SourceOrders ==
    {[orientation |-> SourceOrder(orientation_rules), stability |-> SourceOrder(stability_rules)]}

Init == InitWith(InputVectors, SourceOrders, "feed_orient")

\* for k, v in inputs.items(): sim_orient.input[k] = v
FeedOrient ==
    /\ pc = "feed_orient"
    /\ LET k == InputKeys[i]
           s == SetInput(sim_orient, orientation_system, k, inputs[k])
       IN  /\ sim_orient' = s
           /\ pc' = IF s.raised # "none" THEN "crashed"
                    ELSE IF i = Len(InputKeys) THEN "feed_stab" ELSE pc
           /\ i' = IF s.raised # "none" THEN i
                   ELSE IF i = Len(InputKeys) THEN 1 ELSE i + 1
    /\ UNCHANGED <<inputs, order, sim_stab, results, page>>

\* A faulty variant: the value is taken by position in the inputs dict, not
\* by key.
FeedStab_ValueByPosition ==
    /\ pc = "feed_stab"
    /\ LET k == StabKeys[i]
           s == SetInput(sim_stab, stability_system, k, inputs[InputKeys[i]])
       IN  /\ sim_stab' = s
           /\ pc' = IF s.raised # "none" THEN "crashed"
                    ELSE IF i = Len(StabKeys) THEN "compute_orient" ELSE pc
           /\ i' = IF s.raised # "none" THEN i
                   ELSE IF i = Len(StabKeys) THEN 1 ELSE i + 1
    /\ UNCHANGED <<inputs, order, sim_orient, results, page>>

\* for k in [...]: sim_stab.input[k] = inputs[k]
FeedStab ==
    /\ pc = "feed_stab"
    /\ LET k == StabKeys[i]
           s == SetInput(sim_stab, stability_system, k, inputs[k])
       IN  /\ sim_stab' = s
           /\ pc' = IF s.raised # "none" THEN "crashed"
                    ELSE IF i = Len(StabKeys) THEN "compute_orient" ELSE pc
           /\ i' = IF s.raised # "none" THEN i
                   ELSE IF i = Len(StabKeys) THEN 1 ELSE i + 1
    /\ UNCHANGED <<inputs, order, sim_orient, results, page>>

\* try: sim_orient.compute()
ComputeOrient ==
    /\ pc = "compute_orient"
    /\ sim_orient' = compute(sim_orient, orientation_system, order.orientation)
    /\ pc' = IF sim_orient'.raised = "none" THEN "compute_stab" ELSE "except"
    /\ UNCHANGED <<inputs, order, sim_stab, i, results, page>>

\* sim_stab.compute()
ComputeStab ==
    /\ pc = "compute_stab"
    /\ sim_stab' = compute(sim_stab, stability_system, order.stability)
    /\ pc' = IF sim_stab'.raised = "none" THEN "results" ELSE "except"
    /\ UNCHANGED <<inputs, order, sim_orient, i, results, page>>

\* A faulty variant: st.stop() left out, the script goes on to the results.
Except_WithoutStop ==
    /\ pc = "except"
    /\ page' = [page EXCEPT !.error = TRUE]
    /\ pc' = "results"
    /\ UNCHANGED <<inputs, order, sim_orient, sim_stab, i, results>>

\* except Exception as e: st.error(...); st.stop()
Except ==
    /\ pc = "except"
    /\ page' = [page EXCEPT !.error = TRUE]
    /\ pc' = "stopped"
    /\ UNCHANGED <<inputs, order, sim_orient, sim_stab, i, results>>

\* 8. Results: the scores read from the outputs, and their labels. Reading
\* an output compute() did not set raises KeyError.
Results ==
    /\ pc = "results"
    /\ IF "orientation" \in DOMAIN sim_orient.output /\ "stability" \in DOMAIN sim_stab.output
       THEN /\ results' =
                 [score_orient |-> sim_orient.output["orientation"],
                  score_stab |-> sim_stab.output["stability"],
                  label_orient |-> interpret_orientation(sim_orient.output["orientation"]),
                  label_stab |-> interpret_stability(sim_stab.output["stability"])]
            /\ pc' = "render"
       ELSE /\ results' = results
            /\ pc' = "crashed"
    /\ UNCHANGED <<inputs, order, sim_orient, sim_stab, i, page>>

\* 9.-11. Gauges, layout and summary.
Render ==
    /\ pc = "render"
    /\ page' = [page EXCEPT
                   !.orientation = <<results.score_orient, results.label_orient>>,
                   !.stability = <<results.score_stab, results.label_stab>>,
                   !.summary = Summary(results.label_orient, results.label_stab)]
    /\ pc' = "done"
    /\ UNCHANGED <<inputs, order, sim_orient, sim_stab, i, results>>

Next ==
    \/ FeedOrient
    \/ FeedStab
    \/ ComputeOrient
    \/ ComputeStab
    \/ Except
    \/ Results
    \/ Render

Spec == Init /\ [][Next]_vars

----------------------------------------------------------------------------
(* The script under other rule orders *)

\* ControlSystem orders its rules itself; these are the orders checked.
Orders ==
    { [orientation |-> Shuffle(Len(orientation_rules), r, rev),
       stability |-> Shuffle(Len(stability_rules), r, rev)] :
        r \in 0 .. MaxRotation, rev \in BOOLEAN }

InitOrder == InitWith(ProfileVectors, Orders, "feed_orient")

SpecOrder == InitOrder /\ [][Next]_vars

----------------------------------------------------------------------------
(* The two simulations driven in any interleaving *)

\* Each simulation is fed its keys in the order of its loop, and compute()
\* may be called on it at any time, before its feeding is over as well; the
\* steps of the two simulations interleave freely.

InitSession == InitWith(ProfileVectors, SourceOrders, "session")

\* The next key of a feeding loop over `keys`, given what is bound.
Bound(sim) == Cardinality(DOMAIN sim.input)

SessionFeedOrient ==
    /\ pc = "session"
    /\ Bound(sim_orient) < Len(InputKeys)
    /\ LET k == InputKeys[Bound(sim_orient) + 1]
       IN  sim_orient' = SetInput(sim_orient, orientation_system, k, inputs[k])
    /\ UNCHANGED <<inputs, order, sim_stab, pc, i, results, page>>

SessionFeedStab ==
    /\ pc = "session"
    /\ Bound(sim_stab) < Len(StabKeys)
    /\ LET k == StabKeys[Bound(sim_stab) + 1]
       IN  sim_stab' = SetInput(sim_stab, stability_system, k, inputs[k])
    /\ UNCHANGED <<inputs, order, sim_orient, pc, i, results, page>>

SessionComputeOrient ==
    /\ pc = "session"
    /\ sim_orient' = compute(sim_orient, orientation_system, order.orientation)
    /\ UNCHANGED <<inputs, order, sim_stab, pc, i, results, page>>

\* A faulty variant: compute() of the stability simulation also sees the
\* inputs bound on the orientation simulation.
SessionComputeStab_SharedInputs ==
    /\ pc = "session"
    /\ LET shared == [k \in (DOMAIN sim_stab.input \cup DOMAIN sim_orient.input)
                               \cap stability_system.antecedents |->
                         IF k \in DOMAIN sim_stab.input THEN sim_stab.input[k]
                         ELSE sim_orient.input[k]]
       IN  sim_stab' = compute([sim_stab EXCEPT !.input = shared], stability_system,
                               order.stability)
    /\ UNCHANGED <<inputs, order, sim_orient, pc, i, results, page>>

SessionComputeStab ==
    /\ pc = "session"
    /\ sim_stab' = compute(sim_stab, stability_system, order.stability)
    /\ UNCHANGED <<inputs, order, sim_orient, pc, i, results, page>>

NextSession ==
    \/ SessionFeedOrient
    \/ SessionFeedStab
    \/ SessionComputeOrient
    \/ SessionComputeStab

SpecSession == InitSession /\ [][NextSession]_vars

----------------------------------------------------------------------------
(* Reference evaluations *)

\* A simulation fed keys j.. of `keys` from the vector `vec`.
RECURSIVE FeedAll(_, _, _, _, _)
FeedAll(sim, system, keys, j, vec) ==
    IF j > Len(keys) THEN sim
    ELSE FeedAll(SetInput(sim, system, keys[j], vec[keys[j]]), system, keys, j + 1, vec)

\* The simulations as the script feeds them from a vector.
FedOrient(vec) == FeedAll(NewSimulation, orientation_system, InputKeys, 1, vec)
FedStab(vec) == FeedAll(NewSimulation, stability_system, StabKeys, 1, vec)

\* compute() has evaluated the rules of a simulation.
Inferred(sim) == sim.cuts # << >>

\* Some rule of the simulation's rule base fired with non-zero strength.
Fires(sim) == \E t \in DOMAIN sim.cuts : sim.cuts[t] > 0

\* A crisp value within [0, n].
Within(c, n) ==
    /\ c.den > 0
    /\ c.whole >= 0
    /\ c.rem >= 0
    /\ c.whole < n * OutUnit \/ (c.whole = n * OutUnit /\ c.rem = 0)

AllAt(v) == \A k \in Antecedents : inputs[k] = v

----------------------------------------------------------------------------
(* Claims *)

\* C1: for every input vector with each antecedent in [0,10], at least one
\* orientation rule and at least one stability rule fires with non-zero
\* strength, so that compute() never finds an aggregated curve of zero total
\* membership.
C1_SomeRuleAlwaysFires ==
    /\ Inferred(sim_orient) => Fires(sim_orient) /\ sim_orient.raised # "zero_area"
    /\ Inferred(sim_stab) => Fires(sim_stab) /\ sim_stab.raised # "zero_area"

\* C2: with every antecedent at 10.0 the script ends with a crisp orientation
\* above 60, labelled Extrovert; with every antecedent at 0.0 it ends with a
\* crisp orientation below 40, labelled Introvert.
C2_AllHighExtrovertAllLowIntrovert ==
    pc \in {"done", "stopped", "crashed"} =>
        /\ AllAt(SliderMax) =>
              /\ pc = "done"
              /\ Above(results.score_orient, 60)
              /\ results.score_orient = sim_orient.output["orientation"]
              /\ results.label_orient = "Extrovert"
        /\ AllAt(SliderMin) =>
              /\ pc = "done"
              /\ Below(results.score_orient, 40)
              /\ results.score_orient = sim_orient.output["orientation"]
              /\ results.label_orient = "Introvert"

C2_Witness ==
    /\ pc = "done"
    /\ AllAt(SliderMax)
    /\ results.label_orient = "Extrovert"
    /\ Above(page.orientation[1], 60)

\* C3: for a fixed input vector, the term cuts (which fix the aggregated
\* curve) and the crisp output of each controller are those of the source
\* order of the rules, whatever the order the rules were evaluated in.
C3_OrderIndependent ==
    /\ pc \in {"compute_stab", "except", "results"} =>
          sim_orient = compute(FedOrient(inputs), orientation_system,
                               SourceOrder(orientation_rules))
    /\ pc \in {"results"} \/ (pc = "except" /\ Inferred(sim_stab)) =>
          sim_stab = compute(FedStab(inputs), stability_system,
                             SourceOrder(stability_rules))

C3_Witness ==
    /\ pc = "results"
    /\ order.orientation # SourceOrder(orientation_rules)
    /\ order.stability # SourceOrder(stability_rules)
    /\ Cardinality({sim_orient.cuts[t] : t \in DOMAIN sim_orient.cuts}) > 1
    /\ "orientation" \in DOMAIN sim_orient.output
    /\ "stability" \in DOMAIN sim_stab.output

\* C4: compute() succeeds only when every antecedent of the simulation's
\* rule base is bound; called with one unbound it raises, evaluates no rule
\* and sets no output.
C4_ComputeOnlyWhenReady ==
    /\ sim_orient.output # << >> \/ Inferred(sim_orient) => Ready(sim_orient, orientation_system)
    /\ sim_stab.output # << >> \/ Inferred(sim_stab) => Ready(sim_stab, stability_system)
    /\ sim_orient.raised = "missing_input" =>
          sim_orient.output = << >> /\ ~Inferred(sim_orient)
    /\ sim_stab.raised = "missing_input" =>
          sim_stab.output = << >> /\ ~Inferred(sim_stab)
    /\ ~Ready(sim_orient, orientation_system) => sim_orient.raised \in {"none", "missing_input"}
    /\ ~Ready(sim_stab, stability_system) => sim_stab.raised \in {"none", "missing_input"}

C4_Witness ==
    /\ pc = "session"
    /\ ~Ready(sim_stab, stability_system)
    /\ Bound(sim_stab) = Len(StabKeys) - 1
    /\ sim_stab.raised = "missing_input"
    /\ sim_stab.output = << >>
    /\ sim_orient.output # << >>

\* C5: when compute() of either controller fails, the failure is reported
\* and the script stops with no score, label, gauge or summary on the page;
\* scores appear only after both compute() calls succeeded.
C5_FailureReportedNothingRendered ==
    LET failed == sim_orient.raised # "none" \/ sim_stab.raised # "none"
        rendered == page.orientation # << >> \/ page.stability # << >> \/ page.summary # ""
    IN  /\ failed => pc \in {"except", "stopped"} /\ results = << >> /\ ~rendered
        /\ pc = "stopped" => failed /\ page.error
        /\ page.error => pc = "stopped"
        /\ rendered \/ results # << >> =>
              /\ ~failed
              /\ "orientation" \in DOMAIN sim_orient.output
              /\ "stability" \in DOMAIN sim_stab.output

C5_Witness ==
    /\ pc = "stopped"
    /\ sim_orient.raised = "none"
    /\ sim_stab.raised = "zero_area"
    /\ page.error
    /\ page.orientation = << >>
    /\ results = << >>

\* What a simulation's own steps alone make of it: its own keys bound to the
\* values of the inputs dict, and the outcome of its compute() that of the
\* script's sequential evaluation.
OwnState(sim, system, keys) ==
    LET fed == FeedAll(NewSimulation, system, SubSeq(keys, 1, Bound(sim)), 1, inputs)
    IN  \/ sim = fed
        \/ sim = [fed EXCEPT !.raised = "missing_input"]
        \/ /\ Bound(sim) = Len(keys)
           /\ sim = compute(fed, system, SourceOrder(system.rules))

\* A step of one simulation: an input bound or compute(), from its own state.
OwnStep(sim, next, system) ==
    \/ next = compute(sim, system, SourceOrder(system.rules))
    \/ \E k \in system.antecedents : next = SetInput(sim, system, k, inputs[k])

\* A step changes one simulation only, to a state determined by that
\* simulation's own state.
OwnSteps ==
    /\ sim_orient' # sim_orient =>
          (sim_stab' = sim_stab /\ OwnStep(sim_orient, sim_orient', orientation_system))
    /\ sim_stab' # sim_stab =>
          (sim_orient' = sim_orient /\ OwnStep(sim_stab, sim_stab', stability_system))

C7_ScoresWithinUniverse ==
    /\ \A n \in DOMAIN sim_orient.output : Within(sim_orient.output[n], 100)
    /\ \A n \in DOMAIN sim_stab.output : Within(sim_stab.output[n], 100)
    /\ results # << >> =>
          Within(results.score_orient, 100) /\ Within(results.score_stab, 100)
    /\ page.orientation # << >> => Within(page.orientation[1], 100)
    /\ page.stability # << >> => Within(page.stability[1], 100)

C7_Witness ==
    /\ pc = "done"
    /\ inputs = Profiles[5]
    /\ Within(page.orientation[1], 100)
    /\ Within(page.stability[1], 100)
    /\ Above(page.orientation[1], 0)
    /\ page.orientation[1].rem > 0

\* C8: the fuzzified inputs have the exact corner values: the trapezoid
\* [0,0,3,5] ('low' / 'reserved') is 1 at 0 and at 3, 0.5 at 4 and 0 at 5; the
\* triangle [4,5.5,7] ('med' / 'balanced') is 1 at 5.5 and 0 at 4 and at 7;
\* and every degree lies in [0,1].
LowTerm(var) == IF var = "express" THEN "reserved" ELSE "low"
MedTerm(var) == IF var = "express" THEN "balanced" ELSE "med"

CornerValues(sim) ==
    \A var \in DOMAIN sim.membership :
        LET x == sim.input[var]
            m == sim.membership[var]
        IN  /\ DOMAIN m = DOMAIN AntecedentTerms(var)
            /\ \A term \in DOMAIN m : 0 <= m[term] /\ m[term] <= DegScale
            /\ x \in {0, 30} => m[LowTerm(var)] = DegScale
            /\ x = 40 => 2 * m[LowTerm(var)] = DegScale
            /\ x = 50 => m[LowTerm(var)] = 0
            /\ x = 55 => m[MedTerm(var)] = DegScale
            /\ x \in {40, 70} => m[MedTerm(var)] = 0

C8_MembershipCornerValues ==
    /\ CornerValues(sim_orient)
    /\ CornerValues(sim_stab)
    /\ Inferred(sim_orient) => DOMAIN sim_orient.membership = Antecedents

C8_Witness ==
    /\ Inferred(sim_orient)
    /\ Inferred(sim_stab)
    /\ sim_orient.input["express"] = 40
    /\ 2 * sim_orient.membership["express"]["reserved"] = DegScale
    /\ sim_stab.membership["express"]["balanced"] = 0

\* C9: in the script both simulations are Ready when compute() is called:
\* every (antecedent, term) pair a rule refers to is a registered term, all
\* nine antecedents are bound on the orientation simulation, and the eight
\* bound on the stability simulation (all but 'initiate') cover every
\* antecedent its rules refer to.
Registered ==
    UNION { { <<var, term>> : term \in DOMAIN AntecedentTerms(var) } : var \in Antecedents }

C9_ReadyAtCompute ==
    /\ Len(orientation_rules) = 18
    /\ Len(stability_rules) = 13
    /\ RuleLeaves(orientation_rules) \cup RuleLeaves(stability_rules) \subseteq Registered
    /\ pc \in {"compute_orient", "compute_stab"} =>
          /\ Ready(sim_orient, orientation_system)
          /\ Ready(sim_stab, stability_system)
          /\ DOMAIN sim_orient.input = Antecedents
          /\ DOMAIN sim_stab.input = Antecedents \ {"initiate"}
          /\ stability_system.antecedents \subseteq DOMAIN sim_stab.input
    /\ sim_orient.raised # "missing_input"
    /\ sim_stab.raised # "missing_input"
    /\ pc # "crashed"

C9_Witness ==
    /\ pc = "compute_stab"
    /\ Ready(sim_stab, stability_system)
    /\ Cardinality(DOMAIN sim_stab.input) = 8
    /\ Cardinality(DOMAIN sim_orient.input) = 9
    /\ "orientation" \in DOMAIN sim_orient.output

=============================================================================
